---- MODULE Spec2Model ----
(***************************************************************************)
(* pdf-to-presentation: the template generator of                          *)
(* server/src/services/template.service.ts and the three client runtime    *)
(* scripts it emits (js/navigation.js, js/flipbook.js,                     *)
(* js/documentation.js).                                                   *)
(*                                                                         *)
(* GenSpec applies generateTemplate to a bounded set of template jobs.     *)
(* StoreSpec applies it over page stores with missing fragment files.      *)
(* SrvSpec runs the upload, page and export routes over the jobs map and   *)
(* one job's output directory; ResolveSpec runs the generate route for     *)
(* every stated, recorded and detectable page count.                       *)
(* Spec runs one viewer session (one browser tab) over a generated site:   *)
(* Init is the state after the script's top-level code has run on the      *)
(* generated markup, every action is one event handler of the script.      *)
(***************************************************************************)
EXTENDS Integers, Sequences, FiniteSets, TLC

\* ---------------------------------------------------------------- bounds
MaxPages == 3
MaxHotspots == 2
MaxPosts == 2

VARIABLES
    phase,          \* "job" (nothing generated), "generated", "failed",
                    \* "viewing", "serving"
    job,            \* TemplateOptions handed to generateTemplate
    indexHtml,      \* index.html as written by the generator (structure)
    scriptJs,       \* the runtime script written next to it (its constants)
    localStorage,   \* value of localStorage.getItem('unlocked'): "null" or "true"
    unlocked,       \* script variable `unlocked`
    currentIndex,   \* navigation.js currentIndex / flipbook.js currentPage
    slideClasses,   \* slideshow: classes "active"/"prev" of each .slide
    dotActive,      \* slideshow: progress dots carrying "active"
    counter,        \* text of #currentSlide / #currentPage
    prevDisabled,   \* prevBtn.disabled
    nextDisabled,   \* nextBtn.disabled
    flipped,        \* flip-book: leaves carrying "flipped"
    lockedEls,      \* pages whose element carries locked-blur / locked-section
    lockOverlays,   \* scrolling document: sections that hold a .lock-overlay
    overlayActive,  \* #leadGenOverlay carries "active" (gate form visible)
    touchStartX,    \* navigation.js touchStartX
    scrollTops,     \* scrolling document: number of sections whose top <= 100
    activeLink,     \* scrolling document: toc link carrying "active" (-1: none)
    lastEvent,      \* the event whose handler ran last (kind, requested index)
    posts,          \* webhook POSTs sent by fetch, each with its outcome so far
    pagesDir,       \* uploads/output/<jobId>/pages: the page fragment files
    assetsDir,      \* uploads/output/<jobId>/assets: number of pageN.png files
    outputFiles,    \* js/*.js and assets/template.css of the output directory
    jobs,           \* the in-memory job store (upload.routes jobs Map)
    response,       \* the last HTTP response of the routes, with its request
    archive,        \* the zip a download request is streaming
    converting,     \* conversions in flight, per job id
    analytics,      \* data/analytics/<documentId>.json, per document
    otherSite       \* a second generated site open on the same origin

vars == <<phase, job, indexHtml, scriptJs, localStorage, unlocked, currentIndex,
          slideClasses, dotActive, counter, prevDisabled, nextDisabled, flipped,
          lockedEls, lockOverlays, overlayActive, touchStartX, scrollTops,
          activeLink, lastEvent, posts, pagesDir, assetsDir, outputFiles, jobs,
          response, archive, converting, analytics, otherSite>>

envVars == <<archive, converting, analytics, otherSite>>

viewVars == <<unlocked, currentIndex, slideClasses, dotActive, counter,
              prevDisabled, nextDisabled, flipped, lockedEls, lockOverlays,
              overlayActive, touchStartX, scrollTops, activeLink>>

\* ---------------------------------------------------------------- inputs
Templates == {"presentation", "flipbook", "documentation"}

\* template values a request can carry: the three variants and anything else
TemplateValues == Templates \cup {"brochure"}

PageCounts == 1..MaxPages

\* freePages values: below 1, inside the page range and beyond it
FreePagesValues == (0 - 1)..(MaxPages + 1)

\* leadGen.webhookUrl: absent (empty) or a URL
NoWebhook == <<>>

WebhookUrls == {NoWebhook, <<"h", "/", "w">>}

LeadGenConfigs ==
    [enabled : BOOLEAN, freePages : FreePagesValues, webhookUrl : {NoWebhook}]

\* a gated configuration with a webhook
WebhookConfigs ==
    [enabled : {TRUE}, freePages : {1}, webhookUrl : WebhookUrls \ {NoWebhook}]

\* values of the name / email inputs of the gate form
FormEntries == { [name |-> "Ann", email |-> "a@x"],
                 [name |-> "Bob", email |-> "b@x"] }

\* leadGen = { enabled: false, freePages: 3 } of a request without leadGen
DefaultLeadGen == [enabled |-> FALSE, freePages |-> 3, webhookUrl |-> NoWebhook]

\* hotspot rectangles and link texts (strings are sequences of characters)
HotspotShapes ==
    { [top |-> 10, left |-> 20, width |-> 30, height |-> 40,
       url |-> <<"u">>, label |-> <<>>],
      [top |-> 0, left |-> 55, width |-> 45, height |-> 100,
       url |-> <<"a", "&", "b">>, label |-> <<"<", "\"">>] }

\* pageIndex values: one before the first page up to one after the last
Hotspots ==
    { [pageIndex |-> p, top |-> s.top, left |-> s.left, width |-> s.width,
       height |-> s.height, url |-> s.url, label |-> s.label] :
      p \in (0 - 1)..MaxPages, s \in HotspotShapes }

HotspotLists == UNION { [1..n -> Hotspots] : n \in 0..MaxHotspots }

Titles == { <<"D", "&", "<", "o">> }

TemplateJobs ==
    [template : TemplateValues, title : Titles, pageCount : PageCounts,
     hotspots : HotspotLists, leadGen : LeadGenConfigs]

\* jobs of the viewer sessions: the runtime scripts never read the title or the
\* hotspot overlays
ViewedJobs ==
    [template : TemplateValues, title : Titles, pageCount : PageCounts,
     hotspots : {<<>>}, leadGen : LeadGenConfigs] \cup
    [template : Templates, title : Titles, pageCount : {2},
     hotspots : {<<>>}, leadGen : WebhookConfigs]

\* ---------------------------------------------------------------- job store
\* the ids of the requests: "j1" may be in the jobs map, "j2" never is
JobIds == {"j1", "j2"}

\* jobs.get(id) of an id that was never uploaded
NoJob == [status |-> "undefined"]

NoJobs == [id \in JobIds |-> NoJob]

\* a title that is not set
NoTitle == <<>>

\* no request has been answered yet
NoResponse == [op |-> "none"]

\* no download is streaming
NoArchive == [state |-> "none"]

\* no conversion in flight; detached: the job object a conversion still holds
\* after the job was deleted from the map
NoConversions == [id \in JobIds |-> [inflight |-> 0, detached |-> NoJob]]

\* the documents analytics events are posted for
DocumentIds == {"d1", "d2"}

\* no analytics file yet; received: events posted for the document so far
NoAnalytics ==
    [posts |-> 0,
     files |-> [d \in DocumentIds |-> [stored |-> <<>>, received |-> 0]]]

\* no second site open
NoOtherSite == [open |-> FALSE, unlocked |-> FALSE, submitted |-> FALSE]

\* ---------------------------------------------------------------- page store
\* the .html files of the pages directory: page<n>.html and <pdfName><n>.html
PageFile(n) == [conv |-> "page", n |-> n]

PdfFile(n) == [conv |-> "pdf", n |-> n]

\* no pages directory at all: a job completed before any page was stored
AbsentStore == [exists |-> FALSE, files |-> {}, pdfFirst |-> TRUE]

\* the store the page routes leave after the pages in ns were posted: both
\* files of each page (pdfFirst: the pdf's name sorts before "page")
RenderStore(ns, pdfFirst) ==
    [exists |-> TRUE,
     files |-> {PageFile(k) : k \in ns} \cup {PdfFile(k) : k \in ns},
     pdfFirst |-> pdfFirst]

\* the store the pdf2htmlEX conversion leaves: <pdfName><n>.html only
ConvertedStore(n, pdfFirst) ==
    [exists |-> TRUE, files |-> {PdfFile(k) : k \in 1..n},
     pdfFirst |-> pdfFirst]

\* the store of an n-page job whose pages were all posted
FullStore(n) == RenderStore(1..n, TRUE)

PageStores ==
    {AbsentStore} \cup
    {RenderStore(ns, b) : ns \in SUBSET (1..MaxPages), b \in BOOLEAN} \cup
    {ConvertedStore(n, b) : n \in 1..MaxPages, b \in BOOLEAN}

\* assets/page<n>.png: the page routes write one with every page they store
PageImages(d) == Cardinality({f \in d.files : f.conv = "page"})

\* the files of one naming convention in name order
RECURSIVE Ascending(_, _)
Ascending(conv, ns) ==
    IF ns = {} THEN <<>>
    ELSE LET m == CHOOSE x \in ns : \A y \in ns : x <= y
         IN <<[conv |-> conv, n |-> m]>> \o Ascending(conv, ns \ {m})

\* fs.readdirSync(pagesDir).filter(f => f.endsWith('.html')): name order
HtmlFiles(d) ==
    LET pages == Ascending("page", {f.n : f \in {g \in d.files : g.conv = "page"}})
        pdfs == Ascending("pdf", {f.n : f \in {g \in d.files : g.conv = "pdf"}})
    IN IF d.pdfFirst THEN pdfs \o pages ELSE pages \o pdfs

\* the body of a fragment file: the content of the page it was rendered from
\* (0 stands for the empty string)
BodyOf(f) == f.n

\* content of page i as read by generateTemplate's loop
PageContent(d, i) ==
    IF PageFile(i) \in d.files
    THEN BodyOf(PageFile(i))
    ELSE LET files == HtmlFiles(d)
         IN IF i <= Len(files) THEN BodyOf(files[i]) ELSE 0

\* fs.readdirSync throws when the pages directory does not exist
ReadThrows(j, d) ==
    \E i \in 1..j.pageCount : PageFile(i) \notin d.files /\ ~d.exists

\* ---------------------------------------------------------------- generator
RECURSIVE escapeHtml(_)
escapeHtml(text) ==
    IF text = <<>> THEN <<>>
    ELSE LET c == Head(text)
             e == CASE c = "&" -> <<"&", "a", "m", "p", ";">>
                    [] c = "<" -> <<"&", "l", "t", ";">>
                    [] c = ">" -> <<"&", "g", "t", ";">>
                    [] c = "\"" -> <<"&", "q", "u", "o", "t", ";">>
                    [] c = "'" -> <<"&", "#", "0", "3", "9", ";">>
                    [] OTHER -> <<c>>
         IN e \o escapeHtml(Tail(text))

\* pageHotspots matching pageIndex against the 1-based page number
pageHotspotsOneBased(hotspots, i) ==
    SelectSeq(hotspots, LAMBDA h : h.pageIndex = i)

\* hotspots.filter(h => h.pageIndex === i - 1), i the 1-based page number
pageHotspots(hotspots, i) ==
    SelectSeq(hotspots, LAMBDA h : h.pageIndex = i - 1)

\* the pages array built by generateTemplate's loop
ReadPages(j, d) ==
    [i \in 1..j.pageCount |->
        [index |-> i, content |-> PageContent(d, i),
         hotspots |-> pageHotspots(j.hotspots, i)]]

\* Variant with a default branch that picks the flip-book
VariantDefaultFlipbook(template) ==
    IF template \in Templates THEN template ELSE "flipbook"

\* switch (template) with its default branch
Variant(template) ==
    IF template \in Templates THEN template ELSE "presentation"

\* IsLockedPage with the comparison off by one
IsLockedPageAfter(leadGen, idx) ==
    leadGen.enabled /\ idx > leadGen.freePages

\* leadGen.enabled && idx >= leadGen.freePages
IsLockedPage(leadGen, idx) ==
    leadGen.enabled /\ idx >= leadGen.freePages

\* the <a class="hotspot-link"> element of one hotspot
HotspotLink(variant, h) ==
    [href |-> escapeHtml(h.url),
     top |-> h.top, left |-> h.left, width |-> h.width, height |-> h.height,
     title |-> IF variant = "presentation"
               THEN escapeHtml(IF h.label # <<>> THEN h.label ELSE h.url)
               ELSE <<>>]

\* NumberLabel putting the page number on the slides too
NumberLabelAlways(variant, page) == page.index

\* the page-number span of a leaf / the section-number of a section; a slide
\* has no number label (0)
NumberLabel(variant, page) ==
    IF variant = "presentation" THEN 0 ELSE page.index

\* page.content || placeholder "Page <index>": the number shown in place of an
\* empty content (0: no placeholder)
Placeholder(page) == IF page.content = 0 THEN page.index ELSE 0

\* one page element: .slide, .page or .section with data-index / id idx
\* (active: the "active" class the markup gives slide 0 and toc link 0)
PageElement(variant, leadGen, page, idx) ==
    [dataIndex |-> idx,
     number |-> NumberLabel(variant, page),
     content |-> page.content,
     placeholder |-> Placeholder(page),
     locked |-> IsLockedPage(leadGen, idx),
     lockOverlay |-> variant = "documentation" /\ IsLockedPage(leadGen, idx),
     active |-> (variant # "flipbook") /\ idx = 0,
     hotspots |-> [k \in 1..Len(page.hotspots) |->
                      HotspotLink(variant, page.hotspots[k])]]

\* number of <form id="leadGenForm"> in the document
GateForms(leadGen) == IF leadGen.enabled THEN 1 ELSE 0

ScriptFile(variant) ==
    CASE variant = "presentation" -> "js/navigation.js"
      [] variant = "flipbook" -> "js/flipbook.js"
      [] variant = "documentation" -> "js/documentation.js"

\* index.html of generatePresentationTemplate / generateFlipbookTemplate /
\* generateDocumentationTemplate
GenerateIndex(j, d) ==
    LET variant == Variant(j.template)
        pages == ReadPages(j, d)
    IN [variant |-> variant,
        title |-> escapeHtml(j.title),
        pages |-> [idx \in 0..(Len(pages) - 1) |->
                      PageElement(variant, j.leadGen, pages[idx + 1], idx)],
        total |-> Len(pages),
        navDisabled |-> variant = "presentation" /\ Len(pages) <= 1,
        gateForms |-> GateForms(j.leadGen),
        script |-> ScriptFile(variant)]

\* the constants interpolated into the runtime script
GenerateScript(j) ==
    IF Variant(j.template) = "documentation"
    THEN [file |-> "js/documentation.js", leadGenEnabled |-> j.leadGen.enabled]
    ELSE IF Variant(j.template) = "flipbook"
    THEN [file |-> "js/flipbook.js",
          leadGenEnabled |-> j.leadGen.enabled,
          freePages |-> j.leadGen.freePages]
    ELSE [file |-> "js/navigation.js",
          leadGenEnabled |-> j.leadGen.enabled,
          freePages |-> j.leadGen.freePages,
          webhookUrl |-> j.leadGen.webhookUrl]

NoFile == [file |-> "none"]

\* assets/template.css of the presentation template
TemplateCss == [file |-> "assets/template.css"]

\* the files generation writes besides index.html
OutputNames == {"js/navigation.js", "js/flipbook.js", "js/documentation.js",
                "assets/template.css"}

NoOutputFiles == [f \in OutputNames |-> NoFile]

\* writeFileSync appending to an existing file instead of replacing it
writeFileSyncAppend(old, data) ==
    IF old = NoFile THEN data ELSE [file |-> "appended"]

\* fs.writeFileSync(path, data): the file holds data, whatever it held
writeFileSync(old, data) == data

\* write failures injected into one generation: 0 none, k: the k-th write throws
WriteFaults == 0..3

\* the writes of one generate*Template call in order: index.html, the runtime
\* script, then (presentation only) assets/template.css. failAt = k > 0: the
\* k-th write throws, the earlier ones have happened.
WriteTree(index, files, j, d, failAt) ==
    LET variant == Variant(j.template)
        script == ScriptFile(variant)
        cssFails == variant = "presentation" /\ failAt = 3
        i1 == IF failAt = 1 THEN index
              ELSE writeFileSync(index, GenerateIndex(j, d))
        f2 == IF failAt \in {1, 2} THEN files
              ELSE [files EXCEPT
                       ![script] = writeFileSync(@, GenerateScript(j))]
        f3 == IF failAt \in {1, 2} \/ cssFails \/ variant # "presentation"
              THEN f2
              ELSE [f2 EXCEPT
                       !["assets/template.css"] = writeFileSync(@, TemplateCss)]
    IN [index |-> i1, files |-> f3,
        ok |-> ~(failAt \in {1, 2} \/ cssFails)]

\* ---------------------------------------------------------------- runtime
NumPages == IF phase = "viewing" THEN indexHtml.total ELSE 0

PageIdx == 0..(NumPages - 1)

IsSlideshow == phase = "viewing" /\ scriptJs.file = "js/navigation.js"
IsFlipbook == phase = "viewing" /\ scriptJs.file = "js/flipbook.js"
IsDocumentation == phase = "viewing" /\ scriptJs.file = "js/documentation.js"

SwipeThreshold == 50

Keys == {"ArrowLeft", "ArrowUp", "ArrowRight", "ArrowDown", " ", "Enter"}

TouchXs == {0, 50, 120}

\* ReadUnlocked comparing the stored value with a literal never stored
ReadUnlockedWrongLiteral(storage) == storage = "1"

\* localStorage.getItem('unlocked') === 'true'
ReadUnlocked(storage) == storage = "true"

\* querySelectorAll('.locked-blur' / '.locked-section') of the generated markup,
\* emptied by the script's start-up code when leadGenEnabled && unlocked
StartLocked(index, script, storage) ==
    IF script.leadGenEnabled /\ ReadUnlocked(storage)
    THEN {}
    ELSE {i \in 0..(index.total - 1) : index.pages[i].locked}

StartLockOverlays(index, script, storage) ==
    IF script.leadGenEnabled /\ ReadUnlocked(storage)
    THEN {i \in 0..(index.total - 1) :
             index.pages[i].lockOverlay /\ ~index.pages[i].locked}
    ELSE {i \in 0..(index.total - 1) : index.pages[i].lockOverlay}

\* the state once the script's top-level code has run on the generated markup
LoadState(index, script, storage) ==
    LET n == index.total
        v == index.variant
    IN [unlocked |-> ReadUnlocked(storage),
        currentIndex |-> 0,
        slideClasses |-> [i \in 0..(n - 1) |->
                            IF v = "presentation" /\ index.pages[i].active
                            THEN {"active"} ELSE {}],
        dotActive |-> IF v = "presentation" THEN {0} ELSE {},
        counter |-> IF v = "documentation" THEN 0 ELSE 1,
        prevDisabled |-> CASE v = "presentation" -> index.navDisabled
                           [] v = "flipbook" -> TRUE
                           [] OTHER -> FALSE,
        nextDisabled |-> CASE v = "presentation" -> index.navDisabled
                           [] v = "flipbook" -> (0 = n - 1)
                           [] OTHER -> FALSE,
        flipped |-> {},
        lockedEls |-> StartLocked(index, script, storage),
        lockOverlays |-> StartLockOverlays(index, script, storage),
        overlayActive |-> FALSE,
        touchStartX |-> 0,
        scrollTops |-> 0,
        activeLink |-> IF v = "documentation" THEN 0 ELSE 0 - 1]

NoEvent == [kind |-> "none", el |-> 0 - 1, index |-> 0 - 1]

\* an event: its kind, the element it happened on (dot, leaf, toc link or unlock
\* button; -1 when there is none) and the index its handler asks to move to
Event(kind, el, index) == [kind |-> kind, el |-> el, index |-> index]

\* GateBlocks without the leadGenEnabled test
GateBlocksAlways(index) ==
    ~unlocked /\ index >= job.leadGen.freePages

\* GateBlocks letting the first gated page through
GateBlocksBeyond(index) ==
    scriptJs.leadGenEnabled /\ ~unlocked /\ index > scriptJs.freePages

\* leadGenEnabled && !unlocked && index >= freePages
GateBlocks(index) ==
    scriptJs.leadGenEnabled /\ ~unlocked /\ index >= scriptJs.freePages

\* ---- navigation.js
goToSlide(index) ==
    IF index < 0 \/ index >= NumPages
    THEN UNCHANGED <<currentIndex, slideClasses, dotActive, counter,
                     prevDisabled, nextDisabled, overlayActive>>
    ELSE IF GateBlocks(index)
    THEN /\ overlayActive' = TRUE
         /\ UNCHANGED <<currentIndex, slideClasses, dotActive, counter,
                        prevDisabled, nextDisabled>>
    ELSE LET left == [slideClasses EXCEPT
                         ![currentIndex] = (@ \ {"active"}) \cup {"prev"}]
             marked == [i \in PageIdx |->
                           (left[i] \ {"prev"}) \cup
                           (IF i < index THEN {"prev"} ELSE {})]
         IN /\ currentIndex' = index
            /\ slideClasses' = [marked EXCEPT ![index] = @ \cup {"active"}]
            /\ dotActive' = (dotActive \ {currentIndex}) \cup {index}
            /\ counter' = index + 1
            /\ prevDisabled' = (index = 0)
            /\ nextDisabled' = (index = NumPages - 1)
            /\ UNCHANGED overlayActive

SlideFrame ==
    UNCHANGED <<phase, job, indexHtml, scriptJs, pagesDir, assetsDir,
                outputFiles, jobs, response, envVars, localStorage, unlocked, flipped,
                lockedEls, lockOverlays, scrollTops, activeLink, posts>>

SlidePrevClick ==
    /\ IsSlideshow
    /\ goToSlide(currentIndex - 1)
    /\ lastEvent' = Event("prev", 0 - 1, currentIndex - 1)
    /\ UNCHANGED touchStartX
    /\ SlideFrame

\* SlideNextClick wrapping around from the last slide to the first
SlideNextClickWrap ==
    /\ IsSlideshow
    /\ goToSlide((currentIndex + 1) % NumPages)
    /\ lastEvent' = Event("next", 0 - 1, currentIndex + 1)
    /\ UNCHANGED touchStartX
    /\ SlideFrame

SlideNextClick ==
    /\ IsSlideshow
    /\ goToSlide(currentIndex + 1)
    /\ lastEvent' = Event("next", 0 - 1, currentIndex + 1)
    /\ UNCHANGED touchStartX
    /\ SlideFrame

DotClick(i) ==
    /\ IsSlideshow
    /\ goToSlide(i)
    /\ lastEvent' = Event("dot", i, i)
    /\ UNCHANGED touchStartX
    /\ SlideFrame

SlideKeyDown(key) ==
    /\ IsSlideshow
    /\ IF key \in {"ArrowLeft", "ArrowUp"}
       THEN goToSlide(currentIndex - 1)
            /\ lastEvent' = Event("keyPrev", 0 - 1, currentIndex - 1)
       ELSE IF key \in {"ArrowRight", "ArrowDown", " "}
       THEN goToSlide(currentIndex + 1)
            /\ lastEvent' = Event("keyNext", 0 - 1, currentIndex + 1)
       ELSE /\ UNCHANGED <<currentIndex, slideClasses, dotActive, counter,
                           prevDisabled, nextDisabled, overlayActive>>
            /\ lastEvent' = Event("keyOther", 0 - 1, 0 - 1)
    /\ UNCHANGED touchStartX
    /\ SlideFrame

TouchStart(x) ==
    /\ IsSlideshow
    /\ touchStartX' = x
    /\ lastEvent' = Event("touchstart", 0 - 1, 0 - 1)
    /\ UNCHANGED <<currentIndex, slideClasses, dotActive, counter,
                   prevDisabled, nextDisabled, overlayActive>>
    /\ SlideFrame

TouchEnd(touchEndX) ==
    /\ IsSlideshow
    /\ LET diff == touchStartX - touchEndX
           abs == IF diff < 0 THEN 0 - diff ELSE diff
       IN IF abs > SwipeThreshold
          THEN IF diff > 0
               THEN goToSlide(currentIndex + 1)
                    /\ lastEvent' = Event("swipeNext", 0 - 1, currentIndex + 1)
               ELSE goToSlide(currentIndex - 1)
                    /\ lastEvent' = Event("swipePrev", 0 - 1, currentIndex - 1)
          ELSE /\ UNCHANGED <<currentIndex, slideClasses, dotActive, counter,
                              prevDisabled, nextDisabled, overlayActive>>
               /\ lastEvent' = Event("touchend", 0 - 1, 0 - 1)
    /\ UNCHANGED touchStartX
    /\ SlideFrame

\* fetch(webhookUrl, {method: 'POST', body: JSON.stringify(data)}): one request
\* in flight, its promise not awaited
fetchWebhook(sent, url, data) ==
    IF url # NoWebhook
    THEN Append(sent, [url |-> url, body |-> data, state |-> "pending"])
    ELSE sent

\* SlideSubmit revealing only the first locked page instead of all of them
SlideSubmitNextPageOnly(data) ==
    /\ IsSlideshow
    /\ scriptJs.leadGenEnabled
    /\ scriptJs.webhookUrl # NoWebhook => Len(posts) < MaxPosts
    /\ localStorage' = "true"
    /\ unlocked' = TRUE
    /\ lockedEls' = {i \in lockedEls : \E k \in lockedEls : k < i}
    /\ overlayActive' = FALSE
    /\ posts' = fetchWebhook(posts, scriptJs.webhookUrl, data)
    /\ lastEvent' = Event("submit", 0 - 1, 0 - 1)
    /\ UNCHANGED <<phase, job, indexHtml, scriptJs, pagesDir, assetsDir,
                outputFiles, jobs, response, envVars, currentIndex, slideClasses,
                   dotActive, counter, prevDisabled, nextDisabled, flipped,
                   lockOverlays, touchStartX, scrollTops, activeLink>>

\* SlideSubmit moving on to the next slide once the pages are unlocked
SlideSubmitAndAdvance(data) ==
    /\ IsSlideshow
    /\ scriptJs.leadGenEnabled
    /\ scriptJs.webhookUrl # NoWebhook => Len(posts) < MaxPosts
    /\ localStorage' = "true"
    /\ unlocked' = TRUE
    /\ lockedEls' = {}
    /\ overlayActive' = FALSE
    /\ posts' = fetchWebhook(posts, scriptJs.webhookUrl, data)
    /\ currentIndex' = IF currentIndex + 1 < NumPages
                       THEN currentIndex + 1 ELSE currentIndex
    /\ counter' = currentIndex' + 1
    /\ lastEvent' = Event("submit", 0 - 1, 0 - 1)
    /\ UNCHANGED <<phase, job, indexHtml, scriptJs, pagesDir, assetsDir,
                   outputFiles, jobs, response, envVars, slideClasses, dotActive,
                   prevDisabled, nextDisabled, flipped, lockOverlays,
                   touchStartX, scrollTops, activeLink>>

\* data: Object.fromEntries(new FormData(form)); the fetch is sent only when the
\* generator interpolated a webhook URL into the script
SlideSubmit(data) ==
    /\ IsSlideshow
    /\ scriptJs.leadGenEnabled
    /\ scriptJs.webhookUrl # NoWebhook => Len(posts) < MaxPosts
    /\ localStorage' = "true"
    /\ unlocked' = TRUE
    /\ lockedEls' = {}
    /\ overlayActive' = FALSE
    /\ posts' = fetchWebhook(posts, scriptJs.webhookUrl, data)
    /\ lastEvent' = Event("submit", 0 - 1, 0 - 1)
    /\ UNCHANGED <<phase, job, indexHtml, scriptJs, pagesDir, assetsDir,
                outputFiles, jobs, response, envVars, currentIndex, slideClasses,
                   dotActive, counter, prevDisabled, nextDisabled, flipped,
                   lockOverlays, touchStartX, scrollTops, activeLink>>

\* the webhook answers POST k or the request fails; .catch(console.error) only
\* logs
WebhookSettles(k, outcome) ==
    /\ IsSlideshow
    /\ k \in DOMAIN posts
    /\ posts[k].state = "pending"
    /\ posts' = [posts EXCEPT ![k].state = outcome]
    /\ lastEvent' = Event("webhookSettled", 0 - 1, 0 - 1)
    /\ UNCHANGED <<phase, job, indexHtml, scriptJs, pagesDir, assetsDir,
                   outputFiles, jobs, response, envVars, localStorage>>
    /\ UNCHANGED viewVars

\* ---- flipbook.js
\* LeafTarget passing the clicked leaf's own index
LeafTargetSelf(i) == i

\* the argument of flipTo in the click handler of leaf i
LeafTarget(i) == i + 1

\* flippedAfter with the backward loop stopping one leaf early
flippedAfterShort(index) ==
    IF index > currentIndex
    THEN flipped \cup {i \in PageIdx : currentIndex <= i /\ i < index}
    ELSE flipped \ {i \in PageIdx : index < i /\ i <= currentIndex - 1}

\* the loops of flipTo over the leaves between the old and the new cursor
flippedAfter(index) ==
    IF index > currentIndex
    THEN flipped \cup {i \in PageIdx : currentIndex <= i /\ i < index}
    ELSE flipped \ {i \in PageIdx : index <= i /\ i <= currentIndex - 1}

flipTo(index) ==
    IF index < 0 \/ index >= NumPages
    THEN UNCHANGED <<currentIndex, flipped, counter, prevDisabled,
                     nextDisabled, overlayActive>>
    ELSE IF GateBlocks(index)
    THEN /\ overlayActive' = TRUE
         /\ UNCHANGED <<currentIndex, flipped, counter, prevDisabled,
                        nextDisabled>>
    ELSE /\ flipped' = flippedAfter(index)
         /\ currentIndex' = index
         /\ prevDisabled' = (index = 0)
         /\ nextDisabled' = (index = NumPages - 1)
         /\ counter' = index + 1
         /\ UNCHANGED overlayActive

FlipFrame ==
    UNCHANGED <<phase, job, indexHtml, scriptJs, pagesDir, assetsDir,
                outputFiles, jobs, response, envVars, localStorage, unlocked,
                slideClasses, dotActive, lockedEls, lockOverlays, touchStartX,
                scrollTops, activeLink, posts>>

FlipPrevClick ==
    /\ IsFlipbook
    /\ flipTo(currentIndex - 1)
    /\ lastEvent' = Event("prev", 0 - 1, currentIndex - 1)
    /\ FlipFrame

FlipNextClick ==
    /\ IsFlipbook
    /\ flipTo(currentIndex + 1)
    /\ lastEvent' = Event("next", 0 - 1, currentIndex + 1)
    /\ FlipFrame

LeafClick(i) ==
    /\ IsFlipbook
    /\ flipTo(LeafTarget(i))
    /\ lastEvent' = Event("leaf", i, LeafTarget(i))
    /\ FlipFrame

FlipKeyDown(key) ==
    /\ IsFlipbook
    /\ IF key = "ArrowRight"
       THEN flipTo(currentIndex + 1)
            /\ lastEvent' = Event("keyNext", 0 - 1, currentIndex + 1)
       ELSE IF key = "ArrowLeft"
       THEN flipTo(currentIndex - 1)
            /\ lastEvent' = Event("keyPrev", 0 - 1, currentIndex - 1)
       ELSE /\ UNCHANGED <<currentIndex, flipped, counter, prevDisabled,
                           nextDisabled, overlayActive>>
            /\ lastEvent' = Event("keyOther", 0 - 1, 0 - 1)
    /\ FlipFrame

FlipSubmit ==
    /\ IsFlipbook
    /\ scriptJs.leadGenEnabled
    /\ localStorage' = "true"
    /\ unlocked' = TRUE
    /\ lockedEls' = {}
    /\ overlayActive' = FALSE
    /\ lastEvent' = Event("submit", 0 - 1, 0 - 1)
    /\ UNCHANGED <<phase, job, indexHtml, scriptJs, pagesDir, assetsDir,
                outputFiles, jobs, response, envVars, currentIndex, slideClasses,
                   dotActive, counter, prevDisabled, nextDisabled, flipped,
                   lockOverlays, touchStartX, scrollTops, activeLink, posts>>

\* ---- documentation.js
DocFrame ==
    UNCHANGED <<phase, job, indexHtml, scriptJs, pagesDir, assetsDir,
                outputFiles, jobs, response, envVars, currentIndex, slideClasses,
                dotActive, counter, prevDisabled, nextDisabled, flipped,
                touchStartX, posts>>

\* click on toc link i: target.scrollIntoView() brings section i to the top of
\* the viewport, so sections 0..i have their top at or above the offset
TocClick(i) ==
    /\ IsDocumentation
    /\ scrollTops' = i + 1
    /\ lastEvent' = Event("toc", i, i)
    /\ UNCHANGED <<localStorage, unlocked, lockedEls, lockOverlays,
                   overlayActive, activeLink>>
    /\ DocFrame

\* a scroll event with k sections at or above the offset: updateActiveLink
Scroll(k) ==
    /\ IsDocumentation
    /\ scrollTops' = k
    /\ activeLink' = k - 1
    /\ lastEvent' = Event("scroll", 0 - 1, 0 - 1)
    /\ UNCHANGED <<localStorage, unlocked, lockedEls, lockOverlays,
                   overlayActive>>
    /\ DocFrame

\* onclick of the "Unlock Now" button inside the lock overlay of section i
UnlockBtnClick(i) ==
    /\ IsDocumentation
    /\ i \in lockOverlays
    /\ overlayActive' = TRUE
    /\ lastEvent' = Event("unlockBtn", i, 0 - 1)
    /\ UNCHANGED <<localStorage, unlocked, lockedEls, lockOverlays, scrollTops,
                   activeLink>>
    /\ DocFrame

\* DocSubmit unlocking the running page only, without writing localStorage
DocSubmitSessionOnly ==
    /\ IsDocumentation
    /\ scriptJs.leadGenEnabled
    /\ unlocked' = TRUE
    /\ lockedEls' = {}
    /\ lockOverlays' = lockOverlays \ lockedEls
    /\ overlayActive' = FALSE
    /\ lastEvent' = Event("submit", 0 - 1, 0 - 1)
    /\ UNCHANGED <<localStorage, scrollTops, activeLink>>
    /\ DocFrame

DocSubmit ==
    /\ IsDocumentation
    /\ scriptJs.leadGenEnabled
    /\ localStorage' = "true"
    /\ unlocked' = TRUE
    /\ lockedEls' = {}
    /\ lockOverlays' = lockOverlays \ lockedEls
    /\ overlayActive' = FALSE
    /\ lastEvent' = Event("submit", 0 - 1, 0 - 1)
    /\ UNCHANGED <<scrollTops, activeLink>>
    /\ DocFrame

\* ---- page load: the script runs from its first line on the generated markup
View(s) ==
    /\ unlocked = s.unlocked
    /\ currentIndex = s.currentIndex
    /\ slideClasses = s.slideClasses
    /\ dotActive = s.dotActive
    /\ counter = s.counter
    /\ prevDisabled = s.prevDisabled
    /\ nextDisabled = s.nextDisabled
    /\ flipped = s.flipped
    /\ lockedEls = s.lockedEls
    /\ lockOverlays = s.lockOverlays
    /\ overlayActive = s.overlayActive
    /\ touchStartX = s.touchStartX
    /\ scrollTops = s.scrollTops
    /\ activeLink = s.activeLink

Reload ==
    /\ phase = "viewing"
    /\ LET s == LoadState(indexHtml, scriptJs, localStorage)
       IN /\ unlocked' = s.unlocked
          /\ currentIndex' = s.currentIndex
          /\ slideClasses' = s.slideClasses
          /\ dotActive' = s.dotActive
          /\ counter' = s.counter
          /\ prevDisabled' = s.prevDisabled
          /\ nextDisabled' = s.nextDisabled
          /\ flipped' = s.flipped
          /\ lockedEls' = s.lockedEls
          /\ lockOverlays' = s.lockOverlays
          /\ overlayActive' = s.overlayActive
          /\ touchStartX' = s.touchStartX
          /\ scrollTops' = s.scrollTops
          /\ activeLink' = s.activeLink
    /\ lastEvent' = Event("load", 0 - 1, 0 - 1)
    /\ UNCHANGED <<phase, job, indexHtml, scriptJs, pagesDir, assetsDir,
                outputFiles, jobs, response, envVars, localStorage, posts>>

\* ---------------------------------------------------------------- Spec
Init ==
    /\ phase = "viewing"
    /\ job \in ViewedJobs
    /\ pagesDir = FullStore(job.pageCount)
    /\ assetsDir = job.pageCount
    /\ indexHtml = WriteTree(NoFile, NoOutputFiles, job, pagesDir, 0).index
    /\ outputFiles = WriteTree(NoFile, NoOutputFiles, job, pagesDir, 0).files
    /\ scriptJs = outputFiles[indexHtml.script]
    /\ posts = <<>>
    /\ jobs = NoJobs
    /\ response = NoResponse
    /\ archive = NoArchive
    /\ converting = NoConversions
    /\ analytics = NoAnalytics
    /\ otherSite = NoOtherSite
    /\ localStorage \in {"null", "true"}
    /\ View(LoadState(indexHtml, scriptJs, localStorage))
    /\ lastEvent = Event("load", 0 - 1, 0 - 1)

Next ==
    \/ SlidePrevClick
    \/ SlideNextClick
    \/ \E i \in PageIdx : DotClick(i)
    \/ \E key \in Keys : SlideKeyDown(key)
    \/ \E x \in TouchXs : TouchStart(x)
    \/ \E x \in TouchXs : TouchEnd(x)
    \/ \E data \in FormEntries : SlideSubmit(data)
    \/ \E k \in 1..MaxPosts, outcome \in {"ok", "failed"} :
          WebhookSettles(k, outcome)
    \/ FlipPrevClick
    \/ FlipNextClick
    \/ \E i \in PageIdx : LeafClick(i)
    \/ \E key \in Keys : FlipKeyDown(key)
    \/ FlipSubmit
    \/ \E i \in PageIdx : TocClick(i)
    \/ \E k \in 0..NumPages : Scroll(k)
    \/ \E i \in PageIdx : UnlockBtnClick(i)
    \/ DocSubmit
    \/ Reload

Spec == Init /\ [][Next]_vars

\* ---------------------------------------------------------------- OriginSpec
\* two gated sites served from one origin: a second generated site is open in
\* the same browser, and its script reads and writes the same localStorage
\* the second site's script starts: localStorage.getItem('unlocked') === 'true'
OtherSiteLoad ==
    /\ phase = "viewing"
    /\ otherSite' = [otherSite EXCEPT !.open = TRUE,
                                      !.unlocked = ReadUnlocked(localStorage)]
    /\ UNCHANGED <<phase, job, indexHtml, scriptJs, pagesDir, assetsDir,
                   outputFiles, jobs, response, archive, converting, analytics,
                   localStorage, posts, lastEvent>>
    /\ UNCHANGED viewVars

\* the gate form of the second site is submitted:
\* localStorage.setItem('unlocked', 'true'); unlocked = true
OtherSiteSubmit ==
    /\ phase = "viewing"
    /\ otherSite.open
    /\ localStorage' = "true"
    /\ otherSite' = [otherSite EXCEPT !.unlocked = TRUE, !.submitted = TRUE]
    /\ UNCHANGED <<phase, job, indexHtml, scriptJs, pagesDir, assetsDir,
                   outputFiles, jobs, response, archive, converting, analytics,
                   posts, lastEvent>>
    /\ UNCHANGED viewVars

\* the first site is a gated site of any variant, nothing is stored yet
OriginInit ==
    /\ Init
    /\ job.pageCount = MaxPages - 1
    /\ job.leadGen \in WebhookConfigs
    /\ localStorage = "null"

OriginNext ==
    \/ Next
    \/ OtherSiteLoad
    \/ OtherSiteSubmit

OriginSpec == OriginInit /\ [][OriginNext]_vars

\* ---------------------------------------------------------------- GenSpec
BlankView ==
    [unlocked |-> FALSE, currentIndex |-> 0, slideClasses |-> <<>>,
     dotActive |-> {}, counter |-> 0, prevDisabled |-> FALSE,
     nextDisabled |-> FALSE, flipped |-> {}, lockedEls |-> {},
     lockOverlays |-> {}, overlayActive |-> FALSE, touchStartX |-> 0,
     scrollTops |-> 0, activeLink |-> 0 - 1]

GenInit ==
    /\ phase = "job"
    /\ job \in TemplateJobs
    /\ pagesDir = FullStore(job.pageCount)
    /\ assetsDir = job.pageCount
    /\ indexHtml = NoFile
    /\ outputFiles = NoOutputFiles
    /\ scriptJs = NoFile
    /\ posts = <<>>
    /\ jobs = NoJobs
    /\ response = NoResponse
    /\ archive = NoArchive
    /\ converting = NoConversions
    /\ analytics = NoAnalytics
    /\ otherSite = NoOtherSite
    /\ localStorage = "null"
    /\ View(BlankView)
    /\ lastEvent = NoEvent

\* generateTemplate: reads the page fragments, then writes index.html, the
\* runtime script and the template css of the variant; it throws when the
\* directory listing or a write throws
generateTemplate(failAt) ==
    /\ phase = "job"
    /\ IF ReadThrows(job, pagesDir)
       THEN /\ phase' = "failed"
            /\ UNCHANGED <<indexHtml, outputFiles>>
       ELSE LET tree == WriteTree(indexHtml, outputFiles, job, pagesDir, failAt)
            IN /\ phase' = IF tree.ok THEN "generated" ELSE "failed"
               /\ indexHtml' = tree.index
               /\ outputFiles' = tree.files
    /\ scriptJs' = outputFiles'[ScriptFile(Variant(job.template))]
    /\ UNCHANGED <<job, pagesDir, assetsDir, posts, jobs, response, envVars,
                   localStorage, lastEvent>>
    /\ UNCHANGED viewVars

GenNext == generateTemplate(0)

GenSpec == GenInit /\ [][GenNext]_vars

\* ---------------------------------------------------------------- StoreSpec
\* jobs generated over every page store: the route's default gate, no hotspot
StoreJobs ==
    [template : Templates, title : Titles, pageCount : PageCounts,
     hotspots : {<<>>},
     leadGen : {DefaultLeadGen}]

StoreInit ==
    /\ phase = "job"
    /\ job \in StoreJobs
    /\ pagesDir \in PageStores
    /\ assetsDir = PageImages(pagesDir)
    /\ indexHtml = NoFile
    /\ outputFiles = NoOutputFiles
    /\ scriptJs = NoFile
    /\ posts = <<>>
    /\ jobs = NoJobs
    /\ response = NoResponse
    /\ archive = NoArchive
    /\ converting = NoConversions
    /\ analytics = NoAnalytics
    /\ otherSite = NoOtherSite
    /\ localStorage = "null"
    /\ View(BlankView)
    /\ lastEvent = NoEvent

StoreSpec == StoreInit /\ [][GenNext]_vars

\* ---------------------------------------------------------------- SrvSpec
\* the upload, page and export routes over the jobs map and the output directory
\* of job "j1"
\* request bodies of POST /generate: template ("undefined": not sent) and
\* pageCount (0: not sent)
GenerateRequests ==
    [template : TemplateValues \cup {"undefined"}, pageCount : {0},
     leadGen : {DefaultLeadGen}]

\* request bodies that state a page count
PageCountRequests ==
    [template : {"presentation"}, pageCount : 0..MaxPages,
     leadGen : {DefaultLeadGen}]

\* request bodies that differ in the gate
GatedRequests ==
    [template : {"presentation", "flipbook"}, pageCount : {0},
     leadGen : {DefaultLeadGen,
                [enabled |-> TRUE, freePages |-> 1, webhookUrl |-> NoWebhook]}]

NoRequest ==
    [template |-> "undefined", pageCount |-> 0, leadGen |-> DefaultLeadGen]

\* the options of the last generateTemplate call: none yet
NoOptions == [template |-> "none"]

\* title || job.title || 'Presentation'
DefaultTitle == <<"P">>

ResolveTitle(requested, recorded) ==
    IF requested # NoTitle THEN requested
    ELSE IF recorded # NoTitle THEN recorded ELSE DefaultTitle

\* ResolvePageCount consulting the files only when nothing else is given
ResolvePageCountStrict(requested, recorded, images) ==
    IF requested # 0 THEN requested
    ELSE IF recorded # 0 THEN recorded
    ELSE IF images > 0 THEN images ELSE 1

\* finalPageCount of POST /generate: requestedPageCount || job.pageCount, the
\* number of page<n>.png files when that is not set or equals 1, else 1
\* (0: undefined; images: page<n>.png files in the assets directory, 0 also
\* when the directory does not exist)
ResolvePageCount(requested, recorded, images) ==
    LET given == IF requested # 0 THEN requested ELSE recorded
        detected == IF (given = 0 \/ given = 1) /\ images > 0
                    THEN images ELSE given
    IN IF detected # 0 THEN detected ELSE 1

\* template = 'presentation' when the body has none
RequestTemplate(req) ==
    IF req.template = "undefined" THEN "presentation" ELSE req.template

\* the options object POST /generate hands to generateTemplate
AssembleJob(req, rec, images) ==
    [template |-> RequestTemplate(req),
     title |-> ResolveTitle(NoTitle, rec.title),
     pageCount |-> ResolvePageCount(req.pageCount, rec.pageCount, images),
     hotspots |-> <<>>,
     leadGen |-> req.leadGen]

Response(op, id, req, status, error) ==
    [op |-> op, id |-> id, req |-> req, status |-> status, error |-> error,
     pageCount |-> 0, repeat |-> FALSE]

\* res.status(code).json({ error }) before anything was touched
Reject(op, id, req, status, error) ==
    /\ response' = Response(op, id, req, status, error)
    /\ UNCHANGED <<job, indexHtml, outputFiles, jobs>>

SrvFrame ==
    /\ UNCHANGED <<phase, scriptJs, posts, localStorage, lastEvent, envVars>>
    /\ UNCHANGED viewVars

\* POST /api/upload: jobs.set(jobId, { status: 'uploaded' })
Upload(id) ==
    /\ phase = "serving"
    /\ jobs[id] = NoJob
    /\ jobs' = [jobs EXCEPT
                   ![id] = [status |-> "uploaded", pageCount |-> 0,
                            title |-> NoTitle, error |-> ""]]
    /\ response' = Response("upload", id, NoRequest, 200, "")
    /\ UNCHANGED <<job, indexHtml, outputFiles, pagesDir, assetsDir>>
    /\ SrvFrame

\* POST /api/render/pages/:jobId with n page images
PostPages(id, n, title) ==
    /\ phase = "serving"
    /\ IF jobs[id] = NoJob
       THEN /\ response' = Response("pages", id, NoRequest, 404, "Job not found")
            /\ UNCHANGED <<jobs, pagesDir, assetsDir>>
       ELSE /\ pagesDir' = RenderStore({f.n : f \in pagesDir.files} \cup 1..n,
                                       TRUE)
            /\ assetsDir' = PageImages(pagesDir')
            /\ jobs' = [jobs EXCEPT
                           ![id] = [@ EXCEPT !.status = "completed",
                                             !.pageCount = n,
                                             !.title = title]]
            /\ response' = Response("pages", id, NoRequest, 200, "")
    /\ UNCHANGED <<job, indexHtml, outputFiles>>
    /\ SrvFrame

\* POST /api/render/complete/:jobId
Complete(id, pageCount, title) ==
    /\ phase = "serving"
    /\ IF jobs[id] = NoJob
       THEN /\ response' = Response("complete", id, NoRequest, 404,
                                    "Job not found")
            /\ UNCHANGED jobs
       ELSE /\ jobs' = [jobs EXCEPT
                           ![id] = [@ EXCEPT
                                      !.status = "completed",
                                      !.pageCount = pageCount,
                                      !.title = IF title # NoTitle THEN title
                                                ELSE @]]
            /\ response' = Response("complete", id, NoRequest, 200, "")
    /\ UNCHANGED <<job, indexHtml, outputFiles, pagesDir, assetsDir>>
    /\ SrvFrame

\* POST /api/export/generate/:jobId
Generate(id, req, failAt) ==
    /\ phase = "serving"
    /\ IF jobs[id] = NoJob
       THEN Reject("generate", id, req, 404, "Job not found")
       ELSE IF jobs[id].status # "completed"
       THEN Reject("generate", id, req, 400, "Job not ready for export")
       ELSE LET j == AssembleJob(req, jobs[id], assetsDir)
                tree == WriteTree(indexHtml, outputFiles, j, pagesDir, failAt)
                again == /\ response.op = "generate" /\ response.status = 200
                         /\ response.id = id /\ response.req = req
            IN /\ job' = j
               /\ UNCHANGED jobs
               /\ IF ReadThrows(j, pagesDir)
                  THEN /\ UNCHANGED <<indexHtml, outputFiles>>
                       /\ response' = Response("generate", id, req, 500,
                                               "ENOENT")
                  ELSE /\ indexHtml' = tree.index
                       /\ outputFiles' = tree.files
                       /\ response' =
                             IF tree.ok
                             THEN [Response("generate", id, req, 200, "")
                                      EXCEPT !.pageCount = j.pageCount,
                                             !.repeat = again]
                             ELSE Response("generate", id, req, 500,
                                           "write failed")
    /\ UNCHANGED <<pagesDir, assetsDir>>
    /\ SrvFrame

\* Download answering without looking for index.html
DownloadUnchecked(id) ==
    /\ phase = "serving"
    /\ IF jobs[id] = NoJob
       THEN Reject("download", id, NoRequest, 404, "Job not found")
       ELSE IF jobs[id].status # "completed"
       THEN Reject("download", id, NoRequest, 400, "Job not ready for download")
       ELSE /\ response' = Response("download", id, NoRequest, 200, "")
            /\ UNCHANGED <<job, indexHtml, outputFiles, jobs>>
    /\ UNCHANGED <<pagesDir, assetsDir>>
    /\ SrvFrame

\* GET /api/export/download/:jobId: the zip of the whole output directory
Download(id) ==
    /\ phase = "serving"
    /\ IF jobs[id] = NoJob
       THEN Reject("download", id, NoRequest, 404, "Job not found")
       ELSE IF jobs[id].status # "completed"
       THEN Reject("download", id, NoRequest, 400, "Job not ready for download")
       ELSE IF indexHtml = NoFile
       THEN Reject("download", id, NoRequest, 400, "Template not generated yet")
       ELSE /\ response' = Response("download", id, NoRequest, 200, "")
            /\ UNCHANGED <<job, indexHtml, outputFiles, jobs>>
    /\ UNCHANGED <<pagesDir, assetsDir>>
    /\ SrvFrame

\* POST /api/export/deploy/:jobId; deployed: whether the Vercel call succeeds
Deploy(id, deployed) ==
    /\ phase = "serving"
    /\ IF jobs[id] = NoJob
       THEN Reject("deploy", id, NoRequest, 404, "Job not found")
       ELSE IF jobs[id].status # "completed"
       THEN Reject("deploy", id, NoRequest, 400, "Job not ready for deployment")
       ELSE IF indexHtml = NoFile
       THEN Reject("deploy", id, NoRequest, 400, "Template not generated yet")
       ELSE /\ response' = IF deployed
                           THEN Response("deploy", id, NoRequest, 200, "")
                           ELSE Response("deploy", id, NoRequest, 500,
                                         "deployment failed")
            /\ UNCHANGED <<job, indexHtml, outputFiles, jobs>>
    /\ UNCHANGED <<pagesDir, assetsDir>>
    /\ SrvFrame

SrvInit ==
    /\ phase = "serving"
    /\ job = NoOptions
    /\ pagesDir = AbsentStore
    /\ assetsDir = 0
    /\ indexHtml = NoFile
    /\ outputFiles = NoOutputFiles
    /\ scriptJs = NoFile
    /\ posts = <<>>
    /\ jobs = NoJobs
    /\ response = NoResponse
    /\ archive = NoArchive
    /\ converting = NoConversions
    /\ analytics = NoAnalytics
    /\ otherSite = NoOtherSite
    /\ localStorage = "null"
    /\ View(BlankView)
    /\ lastEvent = NoEvent

SrvNext ==
    \/ Upload("j1")
    \/ \E id \in JobIds, n \in {1, MaxPages} : PostPages(id, n, NoTitle)
    \/ \E id \in JobIds : Complete(id, 0, NoTitle)
    \/ \E id \in JobIds, req \in GenerateRequests, failAt \in WriteFaults :
          Generate(id, req, failAt)
    \/ \E id \in JobIds : Download(id)
    \/ \E id \in JobIds, deployed \in BOOLEAN : Deploy(id, deployed)

SrvSpec == SrvInit /\ [][SrvNext]_vars

\* ---------------------------------------------------------------- RaceSpec
\* a download streamed while generate requests for the same job are served:
\* archive.finalize() is awaited, the handlers of other requests run meanwhile
\* the entries of the zip: every file of the output directory
EntryNames == {"index.html"} \cup OutputNames

\* an entry the archiver has not read yet
Unread == [file |-> "unread"]

\* the file as it is on disk now (NoFile: it does not exist)
OnDisk(name) == IF name = "index.html" THEN indexHtml ELSE outputFiles[name]

\* GET /download: the checks, the headers and archive.directory(outputDir)
DownloadBegin(id) ==
    /\ phase = "serving"
    /\ archive.state # "open"
    /\ IF jobs[id] = NoJob
       THEN /\ Reject("download", id, NoRequest, 404, "Job not found")
            /\ UNCHANGED archive
       ELSE IF jobs[id].status # "completed"
       THEN /\ Reject("download", id, NoRequest, 400,
                      "Job not ready for download")
            /\ UNCHANGED archive
       ELSE IF indexHtml = NoFile
       THEN /\ Reject("download", id, NoRequest, 400,
                      "Template not generated yet")
            /\ UNCHANGED archive
       ELSE /\ response' = Response("download", id, NoRequest, 200, "")
            /\ archive' = [state |-> "open", id |-> id,
                           entries |-> [f \in EntryNames |-> Unread]]
            /\ UNCHANGED <<job, indexHtml, outputFiles, jobs>>
    /\ UNCHANGED <<pagesDir, assetsDir, phase, scriptJs, posts, localStorage,
                   lastEvent, converting, analytics, otherSite>>
    /\ UNCHANGED viewVars

\* the archiver reads one file of the directory into the zip
ArchiveRead(name) ==
    /\ archive.state = "open"
    /\ archive.entries[name] = Unread
    /\ archive' = [archive EXCEPT !.entries[name] = OnDisk(name)]
    /\ UNCHANGED <<job, indexHtml, outputFiles, jobs, response, pagesDir,
                   assetsDir, phase, scriptJs, posts, localStorage, lastEvent,
                   converting, analytics, otherSite>>
    /\ UNCHANGED viewVars

\* archive.finalize() resolves: every file was read
ArchiveFinalize ==
    /\ archive.state = "open"
    /\ \A f \in EntryNames : archive.entries[f] # Unread
    /\ archive' = [archive EXCEPT !.state = "done"]
    /\ UNCHANGED <<job, indexHtml, outputFiles, jobs, response, pagesDir,
                   assetsDir, phase, scriptJs, posts, localStorage, lastEvent,
                   converting, analytics, otherSite>>
    /\ UNCHANGED viewVars

RaceInit ==
    /\ phase = "serving"
    /\ job = NoOptions
    /\ \E n \in 1..MaxPages :
          /\ pagesDir = FullStore(n)
          /\ jobs = [NoJobs EXCEPT
                        !["j1"] = [status |-> "completed", pageCount |-> n,
                                   title |-> NoTitle, error |-> ""]]
    /\ assetsDir = PageImages(pagesDir)
    /\ indexHtml = NoFile
    /\ outputFiles = NoOutputFiles
    /\ scriptJs = NoFile
    /\ posts = <<>>
    /\ response = NoResponse
    /\ archive = NoArchive
    /\ converting = NoConversions
    /\ analytics = NoAnalytics
    /\ otherSite = NoOtherSite
    /\ localStorage = "null"
    /\ View(BlankView)
    /\ lastEvent = NoEvent

RaceNext ==
    \/ \E req \in GatedRequests : Generate("j1", req, 0)
    \/ DownloadBegin("j1")
    \/ \E name \in EntryNames : ArchiveRead(name)
    \/ ArchiveFinalize

RaceSpec == RaceInit /\ [][RaceNext]_vars

\* ---------------------------------------------------------------- JobSpec
\* the life of one uploaded job: the server-side conversion running in the
\* background of its request, the page routes, status and delete
\* conversions of one job running at a time that the model follows
MaxInflight == 2

\* result.title || path.basename(job.originalName, '.pdf')
ConvertedTitle == <<"c">>

\* error.message of a conversion that threw
ConvertError == "conversion failed"

JobFrame ==
    /\ UNCHANGED <<phase, scriptJs, posts, localStorage, lastEvent, archive,
                   analytics, otherSite>>
    /\ UNCHANGED viewVars

\* ConvertRequest without the test for a conversion already running
ConvertRequestUnchecked(id) ==
    /\ phase = "serving"
    /\ IF jobs[id] = NoJob
       THEN /\ Reject("convert", id, NoRequest, 404, "Job not found")
            /\ UNCHANGED converting
       ELSE IF jobs[id].status = "completed"
       THEN /\ Reject("convert", id, NoRequest, 400,
                      "Job has already been converted")
            /\ UNCHANGED converting
       ELSE /\ converting[id].inflight < MaxInflight
            /\ jobs' = [jobs EXCEPT ![id].status = "processing"]
            /\ converting' = [converting EXCEPT ![id].inflight = @ + 1]
            /\ response' = Response("convert", id, NoRequest, 200, "")
            /\ UNCHANGED <<job, indexHtml, outputFiles>>
    /\ UNCHANGED <<pagesDir, assetsDir>>
    /\ JobFrame

\* POST /api/convert/:jobId up to res.json: the checks, status = 'processing'
\* and the conversion started in the background
ConvertRequest(id) ==
    /\ phase = "serving"
    /\ IF jobs[id] = NoJob
       THEN /\ Reject("convert", id, NoRequest, 404, "Job not found")
            /\ UNCHANGED converting
       ELSE IF jobs[id].status = "processing"
       THEN /\ Reject("convert", id, NoRequest, 400,
                      "Job is already being processed")
            /\ UNCHANGED converting
       ELSE IF jobs[id].status = "completed"
       THEN /\ Reject("convert", id, NoRequest, 400,
                      "Job has already been converted")
            /\ UNCHANGED converting
       ELSE /\ converting[id].inflight < MaxInflight
            /\ jobs' = [jobs EXCEPT ![id].status = "processing"]
            /\ converting' = [converting EXCEPT ![id].inflight = @ + 1]
            /\ response' = Response("convert", id, NoRequest, 200, "")
            /\ UNCHANGED <<job, indexHtml, outputFiles>>
    /\ UNCHANGED <<pagesDir, assetsDir>>
    /\ JobFrame

\* the job object the handler of the convert request holds: the one in the
\* map, or the one that was in the map when the job was deleted
Held(id) == IF jobs[id] # NoJob THEN jobs[id] ELSE converting[id].detached

\* Converted leaving the job of a conversion that threw as it is
ConvertedOrLost(held, n, ok) ==
    IF ok
    THEN [held EXCEPT !.status = "completed", !.pageCount = n,
                      !.title = ConvertedTitle]
    ELSE held

\* the job as the handler leaves it: completed with the converter's result, or
\* failed with the error's message
Converted(held, n, ok) ==
    IF ok
    THEN [held EXCEPT !.status = "completed", !.pageCount = n,
                      !.title = ConvertedTitle]
    ELSE [held EXCEPT !.status = "failed", !.error = ConvertError]

\* the rest of the convert handler: convertPdfToHtml and optimizeImages have
\* returned n pages (ok) or one of them threw, and jobs.set stores the job
ConvertFinishes(id, n, ok) ==
    /\ phase = "serving"
    /\ converting[id].inflight > 0
    /\ jobs' = [jobs EXCEPT ![id] = Converted(Held(id), n, ok)]
    /\ converting' = [converting EXCEPT
                         ![id] = [inflight |-> @.inflight - 1,
                                  detached |-> NoJob]]
    /\ pagesDir' = [exists |-> TRUE,
                    files |-> pagesDir.files \cup
                              (IF ok THEN {PdfFile(k) : k \in 1..n} ELSE {}),
                    pdfFirst |-> pagesDir.pdfFirst]
    /\ UNCHANGED <<assetsDir, job, indexHtml, outputFiles, response>>
    /\ JobFrame

\* POST /api/render/page/:jobId/:pageNum: one page stored, the status untouched
PostPage(id, n, title) ==
    /\ phase = "serving"
    /\ IF jobs[id] = NoJob
       THEN /\ response' = Response("page", id, NoRequest, 404, "Job not found")
            /\ UNCHANGED <<jobs, pagesDir, assetsDir>>
       ELSE /\ pagesDir' = [exists |-> TRUE,
                            files |-> pagesDir.files \cup
                                      {PageFile(n), PdfFile(n)},
                            pdfFirst |-> pagesDir.pdfFirst]
            /\ assetsDir' = PageImages(pagesDir')
            /\ jobs' = [jobs EXCEPT
                           ![id].title = IF title # NoTitle THEN title ELSE @]
            /\ response' = Response("page", id, NoRequest, 200, "")
    /\ UNCHANGED <<job, indexHtml, outputFiles>>
    /\ SrvFrame

\* GET /api/upload/status/:jobId
Status(id) ==
    /\ phase = "serving"
    /\ IF jobs[id] = NoJob
       THEN response' = Response("status", id, NoRequest, 404, "Job not found")
       ELSE response' = [Response("status", id, NoRequest, 200, "")
                            EXCEPT !.pageCount = jobs[id].pageCount]
    /\ UNCHANGED <<jobs, job, indexHtml, outputFiles, pagesDir, assetsDir>>
    /\ SrvFrame

\* DELETE /api/upload/:jobId: the pdf, the output directory and the map entry;
\* a conversion in flight keeps the job object
Delete(id) ==
    /\ phase = "serving"
    /\ IF jobs[id] = NoJob
       THEN /\ Reject("delete", id, NoRequest, 404, "Job not found")
            /\ UNCHANGED <<converting, pagesDir, assetsDir>>
       ELSE /\ jobs' = [jobs EXCEPT ![id] = NoJob]
            /\ converting' =
                  [converting EXCEPT
                      ![id] = [inflight |-> @.inflight,
                               detached |-> IF @.inflight > 0 THEN jobs[id]
                                            ELSE NoJob]]
            /\ pagesDir' = AbsentStore
            /\ assetsDir' = 0
            /\ indexHtml' = NoFile
            /\ outputFiles' = NoOutputFiles
            /\ response' = Response("delete", id, NoRequest, 200, "")
            /\ UNCHANGED job
    /\ JobFrame

JobInit ==
    /\ phase = "serving"
    /\ job = NoOptions
    /\ pagesDir = AbsentStore
    /\ assetsDir = 0
    /\ indexHtml = NoFile
    /\ outputFiles = NoOutputFiles
    /\ scriptJs = NoFile
    /\ posts = <<>>
    /\ jobs = [NoJobs EXCEPT
                  !["j1"] = [status |-> "uploaded", pageCount |-> 0,
                             title |-> NoTitle, error |-> ""]]
    /\ response = NoResponse
    /\ archive = NoArchive
    /\ converting = NoConversions
    /\ analytics = NoAnalytics
    /\ otherSite = NoOtherSite
    /\ localStorage = "null"
    /\ View(BlankView)
    /\ lastEvent = NoEvent

JobNext ==
    \/ \E id \in JobIds : ConvertRequest(id)
    \/ \E n \in {1, MaxPages}, ok \in BOOLEAN : ConvertFinishes("j1", n, ok)
    \/ PostPages("j1", MaxPages, NoTitle)
    \/ PostPage("j1", 1, NoTitle)
    \/ Complete("j1", MaxPages, NoTitle)
    \/ Status("j1")
    \/ Delete("j1")
    \/ Generate("j1", NoRequest, 0)
    \/ Download("j1")
    \/ Deploy("j1", TRUE)

JobSpec == JobInit /\ [][JobNext]_vars

\* a conversion that was started returns or throws
JobFairSpec ==
    JobSpec /\ WF_vars(\E n \in {1, MaxPages}, ok \in BOOLEAN :
                          ConvertFinishes("j1", n, ok))

\* ---------------------------------------------------------------- AnalyticsSpec
\* POST /api/analytics/webhook over the files data/analytics/<documentId>.json.
\* A file's content is a list of blocks of events, each block the events
\* numbered lo..hi in the order the document received them
\* webhook posts in one behaviour
MaxWebhooks == 3

\* existingData.length > 10000, slice(-10000)
MaxEvents == 10000

\* req.body.documentId / req.body.events that are not given
NoDocument == "undefined"

NoEvents == 0 - 1

\* events given, but not an array (events.map is not a function)
NotAnArray == 0 - 2

\* lengths of the events array of a post
EventCounts == {0, 1, MaxEvents - 1, MaxEvents, MaxEvents + 1}

WebhookBodies ==
    [documentId : DocumentIds \cup {NoDocument},
     events : EventCounts \cup {NoEvents, NotAnArray}]

\* existingData.length
RECURSIVE Size(_)
Size(blocks) ==
    IF blocks = <<>> THEN 0
    ELSE (Head(blocks).hi - Head(blocks).lo + 1) + Size(Tail(blocks))

\* slice(k): the list without its first k events
RECURSIVE DropFront(_, _)
DropFront(blocks, k) ==
    IF k <= 0 \/ blocks = <<>> THEN blocks
    ELSE LET b == Head(blocks)
             len == b.hi - b.lo + 1
         IN IF len <= k THEN DropFront(Tail(blocks), k - len)
            ELSE <<[lo |-> b.lo + k, hi |-> b.hi]>> \o Tail(blocks)

\* slice(0, n): the first n events of the list
RECURSIVE SliceFirst(_, _)
SliceFirst(blocks, n) ==
    IF n <= 0 \/ blocks = <<>> THEN <<>>
    ELSE LET b == Head(blocks)
             len == b.hi - b.lo + 1
         IN IF len <= n THEN <<b>> \o SliceFirst(Tail(blocks), n - len)
            ELSE <<[lo |-> b.lo, hi |-> b.lo + n - 1]>>

\* slice(-n): the last n events of the list
SliceLast(blocks, n) == DropFront(blocks, Size(blocks) - n)

\* existingData.push(...newEvents) with n new events
Push(file, n) ==
    IF n = 0 THEN file.stored
    ELSE file.stored \o <<[lo |-> file.received + 1, hi |-> file.received + n]>>

WebhookResponse(body, status, error) ==
    [op |-> "webhook", body |-> body, status |-> status, error |-> error]

\* router.post('/webhook')
Webhook(body) ==
    /\ phase = "serving"
    /\ analytics.posts < MaxWebhooks
    /\ IF body.documentId = NoDocument \/ body.events = NoEvents
       THEN /\ response' = WebhookResponse(body, 400,
                                           "documentId and events are required")
            /\ analytics' = [analytics EXCEPT !.posts = @ + 1]
       ELSE IF body.events = NotAnArray
       THEN /\ response' = WebhookResponse(body, 500,
                                           "events.map is not a function")
            /\ analytics' = [analytics EXCEPT !.posts = @ + 1]
       ELSE LET file == analytics.files[body.documentId]
                pushed == Push(file, body.events)
                kept == IF Size(pushed) > MaxEvents
                        THEN SliceLast(pushed, MaxEvents) ELSE pushed
            IN /\ analytics' =
                     [analytics EXCEPT
                         !.posts = @ + 1,
                         !.files[body.documentId] =
                             [stored |-> kept,
                              received |-> file.received + body.events]]
               /\ response' = WebhookResponse(body, 200, "")
    /\ UNCHANGED <<jobs, job, indexHtml, outputFiles, pagesDir, assetsDir,
                   phase, scriptJs, posts, localStorage, lastEvent, archive,
                   converting, otherSite>>
    /\ UNCHANGED viewVars

AnalyticsInit == SrvInit

AnalyticsNext == \E body \in WebhookBodies : Webhook(body)

AnalyticsSpec == AnalyticsInit /\ [][AnalyticsNext]_vars

\* ---------------------------------------------------------------- ResolveSpec
\* POST /generate on a completed job for every stated, recorded and detectable
\* page count
ResolveInit ==
    /\ phase = "serving"
    /\ job = NoOptions
    /\ pagesDir \in {AbsentStore} \cup {FullStore(n) : n \in 1..MaxPages}
    /\ assetsDir = PageImages(pagesDir)
    /\ indexHtml = NoFile
    /\ outputFiles = NoOutputFiles
    /\ scriptJs = NoFile
    /\ posts = <<>>
    /\ \E recorded \in 0..MaxPages :
          jobs = [NoJobs EXCEPT
                     !["j1"] = [status |-> "completed", pageCount |-> recorded,
                                title |-> NoTitle]]
    /\ response = NoResponse
    /\ archive = NoArchive
    /\ converting = NoConversions
    /\ analytics = NoAnalytics
    /\ otherSite = NoOtherSite
    /\ localStorage = "null"
    /\ View(BlankView)
    /\ lastEvent = NoEvent

ResolveNext ==
    \E req \in PageCountRequests, failAt \in WriteFaults :
       Generate("j1", req, failAt)

ResolveSpec == ResolveInit /\ [][ResolveNext]_vars

\* ---------------------------------------------------------------- claims
\* the gate policy of the job and the viewer's gate state
FreePages == job.leadGen.freePages

GateEnabled == phase = "viewing" /\ scriptJs.leadGenEnabled

Locked == GateEnabled /\ ~unlocked

GateUnlocked == phase = "viewing" /\ (~scriptJs.leadGenEnabled \/ unlocked)

\* the viewer's position: the cursor, or the scroll position of the document
Position == IF IsDocumentation THEN scrollTops ELSE currentIndex

NavKinds == {"prev", "next", "dot", "keyPrev", "keyNext", "swipePrev",
             "swipeNext", "leaf", "toc"}

NextKinds == {"next", "keyNext", "swipeNext"}

PrevKinds == {"prev", "keyPrev", "swipePrev"}

HasLockedMarkup == \E i \in PageIdx : indexHtml.pages[i].locked

\* C1: in each of the three variants, while the gate is enabled and the viewer
\* is locked, every navigation event whose target page has 0-based index
\* >= freePages leaves the viewer's position unchanged and makes the gate form
\* visible.
C1_LockedNavigationShowsGate ==
    [][ (/\ Locked
         /\ lastEvent'.kind \in NavKinds
         /\ lastEvent'.index \in PageIdx
         /\ lastEvent'.index >= FreePages)
        => (Position' = Position /\ overlayActive') ]_vars

\* C2: the gate state unlocked is terminal: no navigation event, form
\* submission or reload with the storage kept takes an unlocked viewer back to
\* locked.
C2_UnlockedIsTerminal == [][ GateUnlocked => GateUnlocked' ]_vars

C2_Witness ==
    /\ GateEnabled /\ unlocked /\ HasLockedMarkup
    /\ lastEvent.kind \in PrevKinds
    /\ FreePages >= 1
    /\ currentIndex >= FreePages

\* C3: right after the submit handler has run, no page element carries a locked
\* marker, no section holds a lock overlay and the gate form is hidden.
C3_SubmitRevealsEverything ==
    lastEvent.kind = "submit"
        => (lockedEls = {} /\ lockOverlays = {} /\ ~overlayActive)

C3_Witness ==
    /\ lastEvent.kind = "submit"
    /\ Cardinality({i \in PageIdx : indexHtml.pages[i].locked}) >= 2
    /\ lockedEls = {}

\* C4: a form submission persists the unlock, and whenever the persisted flag
\* is set the viewer is unlocked, no locked marker or lock overlay is left and
\* the gate form is not shown, on every load and after every event.
C4_UnlockPersists ==
    /\ (lastEvent.kind = "submit" => localStorage = "true")
    /\ (phase = "viewing" /\ localStorage = "true"
            => (unlocked /\ lockedEls = {} /\ lockOverlays = {}
                /\ ~overlayActive))

C4_Witness ==
    /\ GateEnabled /\ localStorage = "true" /\ HasLockedMarkup
    /\ lastEvent.kind \in NavKinds
    /\ lastEvent.index \in PageIdx
    /\ lastEvent.index >= FreePages
    /\ Position # 0

\* C5: with the gate enabled, the generated index document marks page i as
\* locked exactly when i >= freePages (the scrolling document also gives
\* exactly those sections a lock overlay) and contains exactly one gate form.
C5_LockedMarkup ==
    (phase = "generated" /\ job.leadGen.enabled)
        => /\ indexHtml.total = job.pageCount
           /\ \A i \in 0..(job.pageCount - 1) :
                 /\ indexHtml.pages[i].locked <=> (i >= job.leadGen.freePages)
                 /\ indexHtml.pages[i].lockOverlay
                       <=> (indexHtml.variant = "documentation"
                            /\ i >= job.leadGen.freePages)
           /\ indexHtml.gateForms = 1

C5_Witness ==
    /\ phase = "generated" /\ job.leadGen.enabled
    /\ job.leadGen.freePages = 2 /\ job.pageCount = 3
    /\ ~indexHtml.pages[1].locked /\ indexHtml.pages[2].locked

\* C6: with the gate disabled, no page of the generated document carries a
\* locked marker, the document contains no gate form, and at view time the gate
\* form is never shown and every navigation event to a page in [0, N-1] moves
\* the viewer there, whatever the persisted unlock flag is.
C6_DisabledGate ==
    /\ []((phase = "viewing" /\ ~job.leadGen.enabled)
            => /\ \A i \in PageIdx : /\ ~indexHtml.pages[i].locked
                                     /\ ~indexHtml.pages[i].lockOverlay
               /\ indexHtml.gateForms = 0
               /\ lockedEls = {} /\ lockOverlays = {}
               /\ ~overlayActive)
    /\ [][ (/\ phase = "viewing" /\ ~job.leadGen.enabled
            /\ lastEvent'.kind \in NavKinds
            /\ lastEvent'.index \in PageIdx)
           => Position' = IF IsDocumentation THEN lastEvent'.index + 1
                          ELSE lastEvent'.index ]_vars

C6_Witness ==
    /\ phase = "viewing" /\ ~job.leadGen.enabled
    /\ localStorage = "null"
    /\ FreePages = 1
    /\ lastEvent.kind \in NextKinds
    /\ currentIndex = 2

\* C7: in the slideshow the cursor stays in [0, N-1], and a next event at N-1
\* or a prev event at 0 leaves the cursor unchanged.
C7_SlideCursorClamped ==
    /\ [](IsSlideshow => currentIndex \in PageIdx)
    /\ [][ IsSlideshow
           => /\ (lastEvent'.kind \in NextKinds /\ currentIndex = NumPages - 1)
                    => currentIndex' = currentIndex
              /\ (lastEvent'.kind \in PrevKinds /\ currentIndex = 0)
                    => currentIndex' = currentIndex ]_vars

C7_Witness ==
    /\ IsSlideshow /\ NumPages >= 2
    /\ currentIndex = NumPages - 1
    /\ lastEvent = Event("next", 0 - 1, NumPages)

\* C8: in the flip-book the cursor stays in [0, N-1] and leaf i is flipped
\* exactly when i < cursor.
C8_FlippedBelowCursor ==
    IsFlipbook
        => /\ currentIndex \in PageIdx
           /\ flipped = {i \in PageIdx : i < currentIndex}

C8_Witness ==
    /\ IsFlipbook /\ NumPages = 3
    /\ currentIndex = 1 /\ flipped = {0}
    /\ lastEvent.kind \in PrevKinds

\* the leaves between two cursor positions
LeavesBetween(a, b) ==
    {k \in PageIdx : (a <= k /\ k < b) \/ (b <= k /\ k < a)}

\* leaves whose flipped flag differs between this state and the next
FlagsChanged == {k \in PageIdx : (k \in flipped) # (k \in flipped')}

\* C9 as stated: a click on leaf i that the gate does not block moves the
\* cursor to i, changing the flipped flag of exactly the leaves between the old
\* and the new cursor.
C9_LeafClickJumpsToLeaf ==
    [][ (/\ IsFlipbook
         /\ lastEvent'.kind = "leaf"
         /\ ~(Locked /\ lastEvent'.el >= FreePages))
        => /\ currentIndex' = lastEvent'.el
           /\ FlagsChanged = LeavesBetween(currentIndex, lastEvent'.el) ]_vars

\* C9 amended: a click on leaf i with i + 1 <= N - 1 that the gate does not
\* block moves the cursor to i + 1, changing the flipped flag of exactly the
\* leaves between the old and the new cursor; a click on the last leaf changes
\* neither the cursor nor any flag.
C9_LeafClickTurnsLeaf ==
    [][ (IsFlipbook /\ lastEvent'.kind = "leaf")
        => /\ (/\ lastEvent'.el + 1 <= NumPages - 1
               /\ ~(Locked /\ lastEvent'.el + 1 >= FreePages))
                  => /\ currentIndex' = lastEvent'.el + 1
                     /\ FlagsChanged
                           = LeavesBetween(currentIndex, lastEvent'.el + 1)
           /\ lastEvent'.el = NumPages - 1
                  => (currentIndex' = currentIndex /\ flipped' = flipped) ]_vars

C9_Witness ==
    /\ IsFlipbook /\ NumPages = 3
    /\ lastEvent.kind = "leaf" /\ lastEvent.el = 1
    /\ currentIndex = 2 /\ flipped = {0, 1}

\* the positions of the job's hotspots whose pageIndex is idx, in list order
HotspotsOn(idx) == {k \in DOMAIN job.hotspots : job.hotspots[k].pageIndex = idx}

SameRectangle(link, h) ==
    /\ link.top = h.top /\ link.left = h.left
    /\ link.width = h.width /\ link.height = h.height

\* C10: the page with 1-based number p carries one overlay for each hotspot
\* whose pageIndex is p - 1, in list order and with the hotspot's percentages,
\* and no other overlay; a hotspot whose pageIndex is outside [0, N-1] gets no
\* overlay and all N pages are still generated.
C10_HotspotOverlays ==
    phase = "generated"
        => /\ indexHtml.total = job.pageCount
           /\ \A p \in 1..job.pageCount :
                 LET links == indexHtml.pages[p - 1].hotspots
                 IN /\ indexHtml.pages[p - 1].dataIndex = p - 1
                    /\ Len(links) = Cardinality(HotspotsOn(p - 1))
                    /\ \E f \in [DOMAIN links -> HotspotsOn(p - 1)] :
                          /\ \A a, b \in DOMAIN links : a < b => f[a] < f[b]
                          /\ \A a \in DOMAIN links :
                                SameRectangle(links[a], job.hotspots[f[a]])

C10_Witness ==
    /\ phase = "generated" /\ job.pageCount = 2
    /\ Len(job.hotspots) = 2
    /\ job.hotspots[1].pageIndex = 2
    /\ job.hotspots[2].pageIndex = 1
    /\ Len(indexHtml.pages[1].hotspots) = 1
    /\ Len(indexHtml.pages[0].hotspots) = 0

\* ---- C11
\* C11 as stated: for every page count N >= 1 and each variant the index document
\* holds exactly N page elements in order, each labelled with its 1-based page
\* number and carrying the 0-based index attribute.
C11_PagesNumberedOneBased ==
    phase = "generated"
        => /\ indexHtml.total = job.pageCount
           /\ DOMAIN indexHtml.pages = 0..(job.pageCount - 1)
           /\ \A idx \in DOMAIN indexHtml.pages :
                 /\ indexHtml.pages[idx].dataIndex = idx
                 /\ indexHtml.pages[idx].number = idx + 1

\* C11 amended: the index document holds exactly N page elements in order, each
\* with the 0-based index attribute; a leaf of the flip-book and a section of
\* the scrolling document carry the 1-based page number as a label, a slide of
\* the slideshow carries no number label, and in every variant a page shown as
\* a placeholder shows its 1-based page number.
C11_PagesIndexedZeroBased ==
    phase = "generated"
        => /\ indexHtml.total = job.pageCount
           /\ DOMAIN indexHtml.pages = 0..(job.pageCount - 1)
           /\ \A idx \in DOMAIN indexHtml.pages :
                 LET el == indexHtml.pages[idx]
                 IN /\ el.dataIndex = idx
                    /\ indexHtml.variant \in {"flipbook", "documentation"}
                          => el.number = idx + 1
                    /\ indexHtml.variant = "presentation" => el.number = 0
                    /\ el.placeholder \in {0, idx + 1}

C11_Witness ==
    /\ phase = "generated"
    /\ indexHtml.variant = "presentation"
    /\ job.pageCount = 3
    /\ indexHtml.pages[2].dataIndex = 2
    /\ indexHtml.pages[2].number = 0
    /\ indexHtml.pages[2].placeholder = 3
    /\ indexHtml.pages[0].placeholder = 0

\* ---- C12
\* a fragment of page i under either naming convention
HasFragment(i) == PageFile(i) \in pagesDir.files \/ PdfFile(i) \in pagesDir.files

\* C12: generation never fails because a page fragment is missing: every page
\* i of 1..N without a fragment file (also when there is no fragment at all) is
\* shown as a placeholder carrying the number i, never with the content of
\* another page, and the pages that have their page<i>.html are rendered with
\* their own content.
C12_MissingFragmentShowsPlaceholder ==
    phase # "job"
        => /\ phase = "generated"
           /\ \A i \in 1..job.pageCount :
                 LET el == indexHtml.pages[i - 1]
                 IN /\ ~HasFragment(i)
                          => el.content = 0 /\ el.placeholder = i
                    /\ PageFile(i) \in pagesDir.files
                          => el.content = i /\ el.placeholder = 0

\* ---- C13
\* C13 as stated: the page count handed to generation is the request's value when
\* one is given, otherwise the job's recorded value, otherwise the number of
\* page images on disk, otherwise 1; a later source is consulted only when
\* every earlier one is absent.
C13_StrictPrecedence ==
    response.op = "generate" /\ job # NoOptions
        => job.pageCount =
              IF response.req.pageCount # 0 THEN response.req.pageCount
              ELSE IF jobs[response.id].pageCount # 0
              THEN jobs[response.id].pageCount
              ELSE IF assetsDir > 0 THEN assetsDir ELSE 1

\* C13 amended: the page count handed to generation is the request's value when
\* one is given, otherwise the job's recorded value; when that value is absent
\* or equal to 1 and page images exist on disk, their number replaces it; when
\* it is absent and there is no page image it is 1. A successful response
\* reports the same count.
C13_PrecedenceUnlessOne ==
    response.op = "generate" /\ job # NoOptions
        => LET given == IF response.req.pageCount # 0
                        THEN response.req.pageCount
                        ELSE jobs[response.id].pageCount
           IN /\ given > 1 => job.pageCount = given
              /\ given <= 1 /\ assetsDir > 0 => job.pageCount = assetsDir
              /\ given <= 1 /\ assetsDir = 0 => job.pageCount = 1
              /\ response.status = 200
                    => /\ response.pageCount = job.pageCount
                       /\ indexHtml.total = job.pageCount

C13_Witness ==
    /\ response.op = "generate" /\ response.status = 200
    /\ response.req.pageCount = 1
    /\ jobs["j1"].pageCount = 2
    /\ assetsDir = 3
    /\ job.pageCount = 3
    /\ indexHtml.total = 3

\* ---- C14
\* the files of the output directory besides index.html, as the slideshow
\* generation of the same options writes them
SlideshowOptions == [job EXCEPT !.template = "presentation"]

\* C14: for a template value that is none of presentation, flipbook,
\* documentation (also when the request has none) generation does not fail on
\* account of the template, and index.html, the runtime script and the css are
\* what the slideshow variant produces for the same job.
C14_UnknownTemplateIsSlideshow ==
    response.op = "generate" /\ response.req.template \notin Templates
        => /\ \/ response.status = 200
              \/ response.status = 404 /\ jobs[response.id] = NoJob
              \/ response.status = 400 /\ jobs[response.id].status # "completed"
              \/ response.status = 500 /\ response.error = "ENOENT"
                    /\ ~pagesDir.exists
              \/ response.status = 500 /\ response.error = "write failed"
           /\ response.status = 200
                 => /\ indexHtml.variant = "presentation"
                    /\ indexHtml = GenerateIndex(SlideshowOptions, pagesDir)
                    /\ outputFiles["js/navigation.js"] =
                          GenerateScript(SlideshowOptions)
                    /\ outputFiles["assets/template.css"] = TemplateCss

C14_Witness ==
    /\ response.op = "generate" /\ response.status = 200
    /\ response.req.template = "brochure"
    /\ job.template = "brochure"
    /\ indexHtml.variant = "presentation"
    /\ indexHtml.script = "js/navigation.js"
    /\ outputFiles["js/flipbook.js"] = NoFile

\* ---- C15
\* C15: a generate request never changes the page store, the page images or
\* the jobs map, and a successful generate that repeats the successful request
\* before it leaves index.html and every other output file as they were.
C15_RegenerateIsIdempotent ==
    [][response'.op = "generate"
          => /\ UNCHANGED <<pagesDir, assetsDir, jobs>>
             /\ response'.status = 200 /\ response'.repeat
                   => UNCHANGED <<indexHtml, outputFiles>>]_vars

C15_Witness ==
    /\ response.op = "generate" /\ response.status = 200
    /\ response.repeat
    /\ indexHtml # NoFile
    /\ indexHtml.variant = "documentation"
    /\ outputFiles["js/documentation.js"] # NoFile

\* ---- C16
\* the files a generation of the variant writes besides index.html
TreeFiles(variant) ==
    IF variant = "presentation"
    THEN {"js/navigation.js", "assets/template.css"}
    ELSE IF variant = "flipbook" THEN {"js/flipbook.js"}
    ELSE {"js/documentation.js"}

\* C16: after a successful generate the output tree is the tree of that
\* generation alone: no file of an earlier generation with another variant is
\* left in it.
C16_RegenerateReplacesTree ==
    response.op = "generate" /\ response.status = 200
        => \A f \in OutputNames :
              outputFiles[f] # NoFile => f \in TreeFiles(indexHtml.variant)

\* ---- C17
ExportOps == {"generate", "download", "deploy"}

\* the answer of an export route on an unknown job, on a job that is not
\* completed, and of download / deploy without index.html
RejectedWithReason ==
    response.op \in ExportOps
        => /\ jobs[response.id] = NoJob
                 => response.status = 404 /\ response.error = "Job not found"
           /\ jobs[response.id] # NoJob
              /\ jobs[response.id].status # "completed"
                 => /\ response.status = 400
                    /\ response.error \in {"Job not ready for export",
                                            "Job not ready for download",
                                            "Job not ready for deployment"}
           /\ response.op \in {"download", "deploy"} /\ indexHtml = NoFile
                 => response.status \in {400, 404}

\* C17: generate, download and deploy on an unknown job or on a job that is not
\* completed answer with an error and a reason, download and deploy also when
\* no index.html was generated, and a rejected request leaves the jobs map,
\* the page store and the output tree unchanged.
C17_RejectionsChangeNothing ==
    /\ []RejectedWithReason
    /\ [][response'.op \in ExportOps /\ response'.status \in {400, 404}
             => UNCHANGED <<jobs, indexHtml, outputFiles, pagesDir,
                            assetsDir>>]_vars

C17_Witness ==
    /\ response.op = "download" /\ response.status = 400
    /\ response.error = "Template not generated yet"
    /\ jobs["j1"].status = "completed"
    /\ indexHtml = NoFile

\* ---- C18
\* C18: a download or deploy request that is served finds a whole tree: the
\* runtime script index.html loads exists, and so does the template css of a
\* slideshow; a tree that a failed generation left half written is not served.
C18_PartialTreeNotServed ==
    response.op \in {"download", "deploy"} /\ response.status = 200
        => \A f \in TreeFiles(indexHtml.variant) : outputFiles[f] # NoFile

\* ---- C19
\* label || url of a hotspot
LabelOrUrl(h) == IF h.label # <<>> THEN h.label ELSE h.url

\* C19: in every variant the title is in index.html escaped, and every
\* hotspot overlay carries its hotspot's escaped url and its escaped label, the
\* url standing in for an absent label.
C19_TitleUrlLabelEscaped ==
    phase = "generated"
        => /\ indexHtml.title = escapeHtml(job.title)
           /\ \A p \in 1..job.pageCount :
                 LET links == indexHtml.pages[p - 1].hotspots
                 IN \A a \in DOMAIN links :
                       \E k \in HotspotsOn(p - 1) :
                          /\ links[a].href = escapeHtml(job.hotspots[k].url)
                          /\ links[a].title =
                                escapeHtml(LabelOrUrl(job.hotspots[k]))

\* ---- C20
\* C20: a form submission sends one POST with the form fields to the
\* configured webhook URL and none when no URL is configured, in every variant,
\* and unlocks (flag set, markers removed, form hidden) without waiting for it.
C20_SubmitPostsToWebhook ==
    [][lastEvent'.kind = "submit"
          => /\ job.leadGen.webhookUrl # NoWebhook
                   => /\ Len(posts') = Len(posts) + 1
                      /\ posts'[Len(posts')].url = job.leadGen.webhookUrl
                      /\ posts'[Len(posts')].state = "pending"
                      /\ SubSeq(posts', 1, Len(posts)) = posts
             /\ job.leadGen.webhookUrl = NoWebhook => posts' = posts
             /\ unlocked' /\ localStorage' = "true"
             /\ lockedEls' = {} /\ ~overlayActive']_vars

\* ---- C21
\* C21: a form submission leaves the cursor, the scroll position and every
\* page's active / prev / flipped state (with the dots, the counter, the
\* buttons and the active toc link) as they were, and a navigation event,
\* blocked or not, leaves the unlock flag and its persisted copy as they were.
C21_GateIndependentOfNavigation ==
    [][/\ lastEvent'.kind = "submit"
             => UNCHANGED <<currentIndex, slideClasses, dotActive, counter,
                            prevDisabled, nextDisabled, flipped, scrollTops,
                            activeLink>>
       /\ lastEvent'.kind \in NavKinds
             => UNCHANGED <<unlocked, localStorage>>]_vars

C21_Witness ==
    /\ IsSlideshow
    /\ lastEvent.kind = "submit"
    /\ unlocked
    /\ currentIndex = 1
    /\ "prev" \in slideClasses[0]
    /\ HasLockedMarkup

\* ---- C22
\* C22: under every interleaving of generate requests and a download of the
\* same job, the finished archive holds an index.html and the runtime script it
\* loads that one generate call wrote: the script's gate constant is the gate
\* of the index document's markup.
C22_ArchiveFromOneGeneration ==
    archive.state = "done"
        => LET index == archive.entries["index.html"]
           IN /\ index # NoFile
              /\ archive.entries[index.script] # NoFile
              /\ archive.entries[index.script].leadGenEnabled
                    = (index.gateForms = 1)

\* ---- C23
\* C23: in the slideshow and the flip-book, with the gate enabled and
\* freePages >= 1, the cursor of every reachable locked state is below
\* freePages.
C23_LockedCursorBelowFreePages ==
    ((IsSlideshow \/ IsFlipbook) /\ Locked /\ FreePages >= 1)
        => currentIndex < FreePages

C23_Witness ==
    /\ IsFlipbook
    /\ Locked
    /\ FreePages >= 1
    /\ currentIndex = FreePages - 1
    /\ FreePages < NumPages
    /\ lastEvent.kind \in NextKinds \cup {"leaf"}
    /\ lastEvent.index >= FreePages
    /\ overlayActive

\* ---- C24
\* C24: in every state of the slideshow, the state of the loaded markup
\* included, exactly the slide and the dot at the cursor are active, the slides
\* marked prev are exactly those below the cursor, the counter shows
\* cursor + 1, the previous button is disabled iff the cursor is 0 and the next
\* button is disabled iff the cursor is the last index.
C24_SlideshowMarkupFollowsCursor ==
    IsSlideshow
        => /\ \A i \in PageIdx :
                 /\ ("active" \in slideClasses[i]) = (i = currentIndex)
                 /\ ("prev" \in slideClasses[i]) = (i < currentIndex)
           /\ dotActive = {currentIndex}
           /\ counter = currentIndex + 1
           /\ prevDisabled = (currentIndex = 0)
           /\ nextDisabled = (currentIndex = NumPages - 1)

\* ---- C25
\* C25: a conversion is started only by a request for a known job whose status
\* is uploaded or failed; a request answered with an error (the job unknown,
\* processing or completed) leaves the jobs map as it was; so no job has more
\* than one server-side conversion in flight.
C25_OneConversionPerJob ==
    /\ [](\A id \in JobIds : converting[id].inflight <= 1)
    /\ [][\A id \in JobIds :
             converting'[id].inflight > converting[id].inflight
                => /\ jobs[id] # NoJob
                   /\ jobs[id].status \in {"uploaded", "failed"}
                   /\ jobs'[id].status = "processing"
                   /\ response' = Response("convert", id, NoRequest, 200, "")
          ]_vars
    /\ [][(/\ response'.op = "convert"
            /\ response'.status # 200
            /\ UNCHANGED converting)
              => /\ UNCHANGED jobs
                 /\ \/ jobs[response'.id] = NoJob
                    \/ jobs[response'.id].status \in {"processing", "completed"}
          ]_vars

C25_Witness ==
    /\ response.op = "convert" /\ response.status = 400
    /\ response.error = "Job is already being processed"
    /\ jobs["j1"].status = "processing"
    /\ jobs["j1"].error = ConvertError
    /\ converting["j1"].inflight = 1

\* ---- C26
\* C26: when the converter and the image optimiser return or throw, a job that
\* is processing eventually is completed or failed; a conversion that threw
\* leaves the job failed with the error's message and with the page count it
\* had.
C26_ConversionEnds ==
    /\ \A id \in JobIds :
          (jobs[id].status = "processing")
             ~> (jobs[id].status \in {"completed", "failed"})
    /\ [][\A id \in JobIds :
             (/\ converting'[id].inflight < converting[id].inflight
              /\ jobs'[id].status # "completed")
                => /\ jobs'[id].status = "failed"
                   /\ jobs'[id].error = ConvertError
                   /\ jobs'[id].pageCount = Held(id).pageCount
          ]_vars

C26_Witness ==
    /\ jobs["j1"].status = "failed"
    /\ jobs["j1"].error = ConvertError
    /\ jobs["j1"].pageCount = 0
    /\ converting["j1"].inflight = 0

\* ---- C27
\* C27: a job that is completed stays completed while it is in the map, and
\* the end of a server-side conversion does not replace its page count,
\* whatever the order of the convert request and of the page routes.
C27_CompletedIsStable ==
    [][\A id \in JobIds :
          (jobs[id] # NoJob /\ jobs[id].status = "completed"
             /\ jobs'[id] # NoJob)
            => /\ jobs'[id].status = "completed"
               /\ converting'[id].inflight < converting[id].inflight
                     => jobs'[id].pageCount = jobs[id].pageCount
      ]_vars

\* ---- C28
\* C28: after a delete request was answered with success the job id is absent
\* from the map in the states that follow, also when a conversion of the job
\* was in flight at the time of the delete.
C28_DeletedStaysDeleted ==
    [][(response.op = "delete" /\ response.status = 200)
          => jobs'[response.id] = NoJob]_vars

\* ---- C29
\* C29: of two gated sites viewed in the same browser storage, a submission in
\* one leaves the gate of the other as it was: the other site is unlocked only
\* when its own form was submitted, and starts locked on its next load
\* otherwise.
C29_GateIsolatedPerSite ==
    (otherSite.open /\ otherSite.unlocked) => otherSite.submitted

\* ---- C30
\* the events numbered lo..hi, in this order and nothing else
IsRun(blocks, lo, hi) ==
    /\ Size(blocks) = hi - lo + 1
    /\ \A i \in DOMAIN blocks :
          /\ blocks[i].lo <= blocks[i].hi
          /\ blocks[i].lo = IF i = 1 THEN lo ELSE blocks[i - 1].hi + 1
    /\ blocks # <<>> => blocks[Len(blocks)].hi = hi

\* C30: after any sequence of webhook posts the stored list of a document holds
\* at most 10000 events, and they are the events the document received last,
\* in the order of arrival; a post without documentId or without events is
\* answered 400 and leaves every stored list as it was.
C30_LastEventsKept ==
    /\ [](\A d \in DocumentIds :
            LET file == analytics.files[d]
                n == IF file.received < MaxEvents THEN file.received
                     ELSE MaxEvents
            IN /\ Size(file.stored) <= MaxEvents
               /\ IsRun(file.stored, file.received - n + 1, file.received))
    /\ [](response.op = "webhook"
            => (response.status = 400)
                 = (\/ response.body.documentId = NoDocument
                    \/ response.body.events = NoEvents))
    /\ [][response'.op = "webhook" /\ response'.status = 400
             => analytics'.files = analytics.files]_vars

C30_Witness ==
    /\ analytics.files["d1"].received > MaxEvents
    /\ Len(analytics.files["d1"].stored) = 2
    /\ analytics.files["d1"].stored[1].lo > 1
    /\ response.op = "webhook" /\ response.status = 400
====
